---- MODULE Spec2Model ----
(***************************************************************************)
(* Model of the Rideau Canal dashboard API server (src/server.js).         *)
(*                                                                         *)
(* Strings the code inspects character by character (location names,      *)
(* safety statuses, the hours query parameter) are sequences of           *)
(* one-character strings.  A JavaScript value that may be absent           *)
(* (undefined / null) is a set: {} when absent, {v} when present.          *)
(* Instants are natural numbers counting half hours.                       *)
(***************************************************************************)
EXTENDS Integers, Sequences, FiniteSets, TLC

VARIABLES container, store, req, res, queries, locals, page

vars == <<container, store, req, res, queries, locals, page>>

-----------------------------------------------------------------------------
(* Bounds of the model *)

\* longest free-form location string drawn for the normalization runs
MaxLen == 3

\* most documents in the store of the single-location runs
MaxDocs == 2

\* most queries the store fails within one request
MaxFailures == 1

\* the refresh cycles of the dashboard a run goes through
MaxCycles == 2

-----------------------------------------------------------------------------
(* Strings *)

Upper == <<"A","B","C","D","E","F","G","H","I","J","K","L","M",
           "N","O","P","Q","R","S","T","U","V","W","X","Y","Z">>

Lower == <<"a","b","c","d","e","f","g","h","i","j","k","l","m",
           "n","o","p","q","r","s","t","u","v","w","x","y","z">>

ToLowerChar(c) ==
    IF \E i \in DOMAIN Upper : Upper[i] = c
    THEN Lower[CHOOSE i \in DOMAIN Upper : Upper[i] = c]
    ELSE c

\* String.prototype.toLowerCase
ToLowerCase(s) == [i \in DOMAIN s |-> ToLowerChar(s[i])]

\* the regular expression class \s, on the characters the model draws
IsSpace(c) == c \in {" ", "\t"}

\* .replace(/'/g, "")
StripApostrophes(s) == SelectSeq(s, LAMBDA c : c # "'")

RECURSIVE HyphenateSpaces(_)
\* .replace(/\s+/g, "-"): each maximal run of whitespace becomes one hyphen
HyphenateSpaces(s) ==
    IF s = <<>> THEN <<>>
    ELSE IF IsSpace(Head(s))
         THEN IF Len(s) > 1 /\ IsSpace(s[2])
              THEN HyphenateSpaces(Tail(s))
              ELSE <<"-">> \o HyphenateSpaces(Tail(s))
         ELSE <<Head(s)>> \o HyphenateSpaces(Tail(s))

\* a faulty variant: whitespace is trimmed at both ends before the replacement
RECURSIVE TrimLeft(_)
TrimLeft(s) ==
    IF s # <<>> /\ IsSpace(Head(s)) THEN TrimLeft(Tail(s)) ELSE s

RECURSIVE TrimRight(_)
TrimRight(s) ==
    IF s # <<>> /\ IsSpace(s[Len(s)]) THEN TrimRight(SubSeq(s, 1, Len(s) - 1)) ELSE s

NormalizeLocationTrimmed(s) ==
    HyphenateSpaces(TrimRight(TrimLeft(StripApostrophes(ToLowerCase(s)))))

\* a faulty variant: the location is passed through without lower-casing
NormalizeLocationKeepCase(s) == HyphenateSpaces(StripApostrophes(s))

\* the location expression of normalizeDoc
NormalizeLocation(s) == HyphenateSpaces(StripApostrophes(ToLowerCase(s)))

-----------------------------------------------------------------------------
(* Location names *)

DowsLakeKey == <<"d","o","w","s","-","l","a","k","e">>
FifthAvenueKey == <<"f","i","f","t","h","-","a","v","e","n","u","e">>
NacKey == <<"n","a","c">>

DowsLakeName == <<"D","o","w","'","s"," ","L","a","k","e">>
FifthAvenueName == <<"F","i","f","t","h"," ","A","v","e","n","u","e">>
NacName == <<"N","A","C">>

\* const locations = ["dows-lake", "fifth-avenue", "nac"]
Locations == <<DowsLakeKey, FifthAvenueKey, NacKey>>

CanonicalLocations == {Locations[i] : i \in DOMAIN Locations}

\* the display-name alias of a key: {} when the key has none
Alias(locationKey) ==
    IF locationKey = DowsLakeKey THEN {DowsLakeName}
    ELSE IF locationKey = FifthAvenueKey THEN {FifthAvenueName}
    ELSE IF locationKey = NacKey THEN {NacName}
    ELSE {}

\* [locationKey, alias or null].filter(Boolean)
LocationVariants(locationKey) ==
    (IF locationKey # <<>> THEN <<locationKey>> ELSE <<>>)
    \o (IF Alias(locationKey) # {}
        THEN <<CHOOSE a \in Alias(locationKey) : TRUE>>
        ELSE <<>>)

StoredNames == CanonicalLocations \cup {DowsLakeName, FifthAvenueName, NacName}

-----------------------------------------------------------------------------
(* The store: documents of the Cosmos DB container *)

\* a stored instant, as the upstream job wrote it
StoredTime(n) == [instant |-> n, form |-> "stored"]

\* new Date(value): the instant a stored or ISO time string denotes
DateOf(t) == t.instant

\* Date.prototype.toISOString
ToISOString(d) == [instant |-> d, form |-> "iso"]

Safe == <<"S","a","f","e">>
Caution == <<"C","A","U","T","I","O","N">>
Unsafe == <<"U","n","s","a","f","e">>
Warning == <<"W","a","r","n","i","n","g">>

\* the "SELECT DISTINCT c.location" diagnostics query, as a target a failure
\* may hit; no location variant is the empty string
AllLocationsQuery == <<>>

QueryTargets == StoredNames \cup {AllLocationsQuery}

RECURSIVE SubsetsUpTo(_, _)
\* the subsets of S with at most n elements
SubsetsUpTo(S, n) ==
    IF n = 0 THEN {{}}
    ELSE LET smaller == SubsetsUpTo(S, n - 1)
         IN  smaller \cup {p \cup {x} : p \in smaller, x \in S}

FailureSets == SubsetsUpTo(QueryTargets, MaxFailures)

\* the failures that can reach a fetch for one key
FailureSetsFor(locationKey) ==
    SubsetsUpTo({AllLocationsQuery}
                    \cup {LocationVariants(locationKey)[i] :
                            i \in DOMAIN LocationVariants(locationKey)},
                MaxFailures)

\* WHERE c.location = @loc
Matching(loc) == {d \in store : d.location = loc}

\* the ORDER BY c.windowEnd key: a null windowEnd sorts before every instant
OrderKey(d) == IF d.windowEnd = {} THEN -1 ELSE DateOf(CHOOSE t \in d.windowEnd : TRUE)

\* ... ORDER BY c.windowEnd DESC OFFSET 0 LIMIT 1: the documents the store may
\* return as the single newest one (any of those that tie)
NewestDocs(loc) ==
    {d \in Matching(loc) : \A e \in Matching(loc) : OrderKey(e) <= OrderKey(d)}

\* SELECT DISTINCT c.location FROM c
DistinctLocations == {d.location : d \in store}

-----------------------------------------------------------------------------
(* normalizeDoc *)

\* the four measurements and readingCount pass through unchanged; the model
\* carries readingCount for all five
normalizeDoc(raw) ==
    [location |-> NormalizeLocation(raw.location),
     timestamp |-> IF raw.windowEnd # {} THEN raw.windowEnd ELSE raw.timestamp,
     safetyStatus |-> raw.safetyStatus,
     readingCount |-> raw.readingCount]

-----------------------------------------------------------------------------
(* getLatestData *)

QueryEntry(kind, loc, threw, count) ==
    [kind |-> kind, loc |-> loc, threw |-> threw, count |-> count]

\* lines 94-108: the diagnostics query after no variant matched, its failure
\* caught, then "return null"
NoDataFound(fails, log) ==
    [data |-> {},
     log |-> Append(log,
                IF AllLocationsQuery \in fails
                THEN QueryEntry("distinct", AllLocationsQuery, TRUE, 0)
                ELSE QueryEntry("distinct", AllLocationsQuery, FALSE,
                                Cardinality(DistinctLocations)))]

\* a faulty variant: the try/catch encloses the whole loop, so a failing query ends
\* the walk
RECURSIVE LatestWalkAbortOnThrow(_, _, _, _)
LatestWalkAbortOnThrow(variants, i, fails, log) ==
    IF i > Len(variants) THEN {NoDataFound(fails, log)}
    ELSE LET loc == variants[i]
         IN  IF loc \in fails
             THEN {[data |-> {}, log |-> Append(log, QueryEntry("latest", loc, TRUE, 0))]}
             ELSE IF NewestDocs(loc) = {}
             THEN LatestWalkAbortOnThrow(variants, i + 1, fails,
                        Append(log, QueryEntry("latest", loc, FALSE, 0)))
             ELSE {[data |-> {normalizeDoc(d)},
                    log |-> Append(log, QueryEntry("latest", loc, FALSE, 1))]
                        : d \in NewestDocs(loc)}

\* a faulty variant: every variant is queried and the newest record over all of them
\* is returned
RECURSIVE LatestWalkMerge(_, _, _, _)
LatestWalkMerge(variants, i, fails, log) ==
    IF i > Len(variants)
    THEN LET found == UNION {NewestDocs(variants[k]) :
                                k \in {j \in DOMAIN variants : variants[j] \notin fails}}
             best == {d \in found : \A e \in found : OrderKey(e) <= OrderKey(d)}
         IN  IF found = {} THEN {NoDataFound(fails, log)}
             ELSE {[data |-> {normalizeDoc(d)}, log |-> log] : d \in best}
    ELSE LET loc == variants[i]
         IN  LatestWalkMerge(variants, i + 1, fails,
                Append(log, QueryEntry("latest", loc, loc \in fails,
                        IF loc \in fails \/ NewestDocs(loc) = {} THEN 0 ELSE 1)))

\* lines 77-92: the loop over the variants from position i on, with the
\* queries issued so far in log.  The result is the set of outcomes the
\* store's choice among tying documents allows.
RECURSIVE LatestWalk(_, _, _, _)
LatestWalk(variants, i, fails, log) ==
    IF i > Len(variants) THEN {NoDataFound(fails, log)}
    ELSE LET loc == variants[i]
         IN  IF loc \in fails
             THEN LatestWalk(variants, i + 1, fails,
                        Append(log, QueryEntry("latest", loc, TRUE, 0)))
             ELSE IF NewestDocs(loc) = {}
             THEN LatestWalk(variants, i + 1, fails,
                        Append(log, QueryEntry("latest", loc, FALSE, 0)))
             ELSE {[data |-> {normalizeDoc(d)},
                    log |-> Append(log, QueryEntry("latest", loc, FALSE, 1))]
                        : d \in NewestDocs(loc)}

\* getLatestData(locationKey), the queries in fails throwing
getLatestData(locationKey, fails) ==
    IF ~container
    THEN {[data |-> {}, log |-> <<>>]}
    ELSE LatestWalk(LocationVariants(locationKey), 1, fails, <<>>)

-----------------------------------------------------------------------------
(* GET /api/data/:location *)

NoDataBody == [error |-> "No data for location"]

\* a faulty variant: the handler sends whatever the fetch returned, so a
\* fetch without a record is answered 200 with null
GetDataLocationUnchecked(locationKey, fails) ==
    \E o \in getLatestData(locationKey, fails) :
        /\ req' = [op |-> "GET /api/data/:location", location |-> locationKey]
        /\ queries' = o.log
        /\ res' = IF o.data = {}
                  THEN [status |-> 200, body |-> [null |-> TRUE]]
                  ELSE [status |-> 200, body |-> CHOOSE r \in o.data : TRUE]
        /\ UNCHANGED <<container, store, locals, page>>

GetDataLocation(locationKey, fails) ==
    \E o \in getLatestData(locationKey, fails) :
        /\ req' = [op |-> "GET /api/data/:location", location |-> locationKey]
        /\ queries' = o.log
        /\ res' = IF o.data = {}
                  THEN [status |-> 404, body |-> NoDataBody]
                  ELSE [status |-> 200, body |-> CHOOSE r \in o.data : TRUE]
        /\ UNCHANGED <<container, store, locals, page>>

-----------------------------------------------------------------------------
(* Single-location runs: a store of at most MaxDocs documents *)

\* an identifier that is none of the three keys
UnknownKey == <<"x">>

\* the values of :location the runs request
RequestKeys == CanonicalLocations \cup {NacName, UnknownKey}

NoRequest == [op |-> "none"]
NoResponse == [status |-> 0, body |-> <<>>]

\* no handler is between two of its statements
NoLocals == [handler |-> "none"]

\* no dashboard page is loaded
NoPage == [pc |-> "none"]

LatestDocs ==
    [location : StoredNames,
     windowEnd : {{}, {StoredTime(2)}, {StoredTime(7)}},
     timestamp : {{}, {StoredTime(5)}},
     safetyStatus : {{Safe}},
     readingCount : {{30}}]

InitLatest ==
    /\ container = TRUE
    /\ store \in SubsetsUpTo(LatestDocs, MaxDocs)
    /\ req = NoRequest
    /\ res = NoResponse
    /\ queries = <<>>
    /\ locals = NoLocals
    /\ page = NoPage

\* no request served yet
Idle == res = NoResponse

NextLatest ==
    Idle /\ \E k \in RequestKeys : \E f \in FailureSetsFor(k) : GetDataLocation(k, f)

SpecLatest == InitLatest /\ [][NextLatest]_vars

\* the variant queries of the last request, in the order issued
VariantQueries == SelectSeq(queries, LAMBDA q : q.kind # "distinct")

FetchedOne == req.op = "GET /api/data/:location"

LastVariantQuery == VariantQueries[Len(VariantQueries)]

NormalizedNewest(loc) == {normalizeDoc(d) : d \in NewestDocs(loc)}

\* C1: the variant queries of a latest-reading fetch are issued in resolver
\* order, canonical key first; a query that returns a record is the last
\* query of the fetch, and the response is the normalized newest record of
\* that variant; every variant is tried when none returns a record; so when
\* the canonical key has a record and its query succeeds, the alias is never
\* queried and no record stored under the alias is returned.
C1_FirstMatchingVariant ==
    (FetchedOne /\ container) =>
        LET v == LocationVariants(req.location)
            q == VariantQueries
        IN  /\ Len(q) <= Len(v)
            /\ \A i \in DOMAIN q :
                  /\ q[i].loc = v[i]
                  /\ q[i].count > 0 <=> (~q[i].threw /\ Matching(v[i]) # {})
                  /\ q[i].count > 0 => (i = Len(q) /\ i = Len(queries))
            /\ (\A i \in DOMAIN q : q[i].count = 0)
                  => (Len(q) = Len(v) /\ res.status = 404)
            /\ (\E i \in DOMAIN q : q[i].count > 0)
                  => (res.status = 200
                      /\ res.body \in NormalizedNewest(LastVariantQuery.loc))
            /\ (q # <<>> /\ ~q[1].threw /\ Matching(req.location) # {})
                  => (Len(queries) = 1
                      /\ res.body \in NormalizedNewest(req.location))

\* the canonical key holds an older record than the alias, and the older one
\* is returned after a single query
C1_Witness ==
    /\ FetchedOne
    /\ req.location = DowsLakeKey
    /\ \E d \in Matching(DowsLakeKey), e \in Matching(DowsLakeName) :
          OrderKey(d) = 2 /\ OrderKey(e) = 7
    /\ res.status = 200
    /\ res.body.timestamp = {StoredTime(2)}
    /\ Len(queries) = 1

\* C2: a variant query that throws returns nothing and does not end the walk:
\* the next variant, if any, is queried; when the first variant's query
\* throws and the second variant's returns a record, the response is that
\* record normalized; every fetch ends in a response (200 or 404).
C2_ThrowingVariantSkipped ==
    (FetchedOne /\ container) =>
        LET v == LocationVariants(req.location)
            q == VariantQueries
        IN  /\ res.status \in {200, 404}
            /\ \A i \in DOMAIN q :
                  q[i].threw =>
                     /\ q[i].count = 0
                     /\ i < Len(v) => (Len(q) > i /\ q[i + 1].loc = v[i + 1])
            /\ (Len(q) >= 2 /\ q[1].threw /\ q[2].count > 0)
                  => (res.status = 200 /\ res.body \in NormalizedNewest(v[2]))

C2_Witness ==
    /\ FetchedOne
    /\ Len(VariantQueries) = 2
    /\ VariantQueries[1].threw
    /\ Matching(req.location) # {}
    /\ VariantQueries[2].count = 1
    /\ res.status = 200
    /\ res.body \in NormalizedNewest(LocationVariants(req.location)[2])

\* C9: a latest-reading fetch for a canonical location that matches a record
\* under either variant returns a reading whose location is the canonical
\* key; the field is the normalization of the stored string (for the key
\* "NAC" it is "nac", not the key requested).
C9_LocationIsCanonicalKey ==
    (FetchedOne /\ res.status = 200) =>
        /\ res.body.location = NormalizeLocation(LastVariantQuery.loc)
        /\ req.location \in CanonicalLocations => res.body.location = req.location
        /\ req.location = NacName => res.body.location = NacKey

\* only "Fifth Avenue" holds a record, and the fetch for fifth-avenue
\* returns it with location "fifth-avenue"
C9_Witness ==
    /\ FetchedOne
    /\ req.location = FifthAvenueKey
    /\ Matching(FifthAvenueKey) = {}
    /\ LastVariantQuery.loc = FifthAvenueName
    /\ res.status = 200
    /\ res.body.location = FifthAvenueKey

-----------------------------------------------------------------------------
(* GET /api/data *)

\* the body built by "if (data) result[loc] = data" over the three fetches
\* a faulty variant: every location gets an entry, null when its fetch
\* returned nothing
PresentReadingsWithNulls(fetched) ==
    [loc \in {Locations[i] : i \in DOMAIN fetched}
        |-> LET data == fetched[CHOOSE i \in DOMAIN Locations : Locations[i] = loc].data
            IN  IF data = {} THEN [null |-> TRUE] ELSE CHOOSE r \in data : TRUE]

PresentReadings(fetched) ==
    [loc \in {Locations[i] : i \in {j \in DOMAIN fetched : fetched[j].data # {}}}
        |-> CHOOSE r \in fetched[CHOOSE i \in DOMAIN Locations : Locations[i] = loc].data
                : TRUE]

GetData(fails) ==
    \E a \in getLatestData(Locations[1], fails),
       b \in getLatestData(Locations[2], fails),
       c \in getLatestData(Locations[3], fails) :
        /\ req' = [op |-> "GET /api/data"]
        /\ queries' = a.log \o b.log \o c.log
        /\ res' = [status |-> 200, body |-> PresentReadings(<<a, b, c>>)]
        /\ UNCHANGED <<container, store, locals, page>>

-----------------------------------------------------------------------------
(* GET /api/status *)

\* lines 183-188: the tally before the loop
EmptyTally ==
    [totalLocations |-> 0, safeLocations |-> 0, cautionLocations |-> 0,
     unsafeLocations |-> 0, latestTimestamp |-> {}]

\* (data.safetyStatus || "")
StatusOrEmpty(safetyStatus) ==
    IF safetyStatus = {} \/ safetyStatus = {<<>>}
    THEN <<>>
    ELSE CHOOSE v \in safetyStatus : TRUE

\* a faulty variant: the status is compared as stored, without lower-casing
SafetyClassExact(reading) ==
    LET status == StatusOrEmpty(reading.safetyStatus)
    IN  IF status = <<"s","a","f","e">> THEN "safe"
        ELSE IF status = <<"c","a","u","t","i","o","n">> THEN "caution"
        ELSE "unsafe"

\* lines 196-199: the class a reading is counted in
SafetyClass(reading) ==
    LET status == ToLowerCase(StatusOrEmpty(reading.safetyStatus))
    IN  IF status = <<"s","a","f","e">> THEN "safe"
        ELSE IF status = <<"c","a","u","t","i","o","n">> THEN "caution"
        ELSE "unsafe"

\* a faulty variant: the timestamp of the reading processed last wins
LaterTimestampLastWins(latestTimestamp, reading) ==
    IF reading.timestamp # {}
    THEN {DateOf(CHOOSE t \in reading.timestamp : TRUE)}
    ELSE latestTimestamp

\* lines 201-206: latestTimestamp after a reading
LaterTimestamp(latestTimestamp, reading) ==
    IF reading.timestamp # {}
    THEN LET ts == DateOf(CHOOSE t \in reading.timestamp : TRUE)
         IN  IF latestTimestamp = {} \/ (\A l \in latestTimestamp : ts > l)
             THEN {ts}
             ELSE latestTimestamp
    ELSE latestTimestamp

\* a faulty variant: a location without data is counted as unsafe
TallyAbsentUnsafe(tally, data) ==
    IF data = {}
    THEN [tally EXCEPT !.unsafeLocations = @ + 1]
    ELSE LET reading == CHOOSE r \in data : TRUE
             class == SafetyClass(reading)
         IN  [totalLocations |-> tally.totalLocations + 1,
              safeLocations |-> tally.safeLocations + (IF class = "safe" THEN 1 ELSE 0),
              cautionLocations |->
                  tally.cautionLocations + (IF class = "caution" THEN 1 ELSE 0),
              unsafeLocations |->
                  tally.unsafeLocations + (IF class = "unsafe" THEN 1 ELSE 0),
              latestTimestamp |-> LaterTimestamp(tally.latestTimestamp, reading)]

\* a faulty variant: the last branch tests for "unsafe", so a reading of any
\* other status is counted in the total and in no class
TallyUnrecognizedUncounted(tally, data) ==
    IF data = {}
    THEN tally
    ELSE LET reading == CHOOSE r \in data : TRUE
             class == SafetyClass(reading)
             status == ToLowerCase(StatusOrEmpty(reading.safetyStatus))
         IN  [totalLocations |-> tally.totalLocations + 1,
              safeLocations |-> tally.safeLocations + (IF class = "safe" THEN 1 ELSE 0),
              cautionLocations |->
                  tally.cautionLocations + (IF class = "caution" THEN 1 ELSE 0),
              unsafeLocations |->
                  tally.unsafeLocations
                     + (IF status = <<"u","n","s","a","f","e">> THEN 1 ELSE 0),
              latestTimestamp |-> LaterTimestamp(tally.latestTimestamp, reading)]

\* lines 191-207: one iteration of the loop, data being what the fetch returned
Tally(tally, data) ==
    IF data = {}
    THEN tally
    ELSE LET reading == CHOOSE r \in data : TRUE
             class == SafetyClass(reading)
         IN  [totalLocations |-> tally.totalLocations + 1,
              safeLocations |-> tally.safeLocations + (IF class = "safe" THEN 1 ELSE 0),
              cautionLocations |->
                  tally.cautionLocations + (IF class = "caution" THEN 1 ELSE 0),
              unsafeLocations |->
                  tally.unsafeLocations + (IF class = "unsafe" THEN 1 ELSE 0),
              latestTimestamp |-> LaterTimestamp(tally.latestTimestamp, reading)]

\* the tally after the first k of the fetches
RECURSIVE TallyUpTo(_, _)
TallyUpTo(fetched, k) ==
    IF k = 0 THEN EmptyTally ELSE Tally(TallyUpTo(fetched, k - 1), fetched[k].data)

\* a faulty variant: caution is tested before unsafe
SystemStatusCautionFirst(tally) ==
    IF tally.totalLocations = 0 THEN "No Data"
    ELSE IF tally.cautionLocations > 0 THEN "Caution"
    ELSE IF tally.unsafeLocations > 0 THEN "Unsafe"
    ELSE IF tally.safeLocations = tally.totalLocations THEN "Safe"
    ELSE "Unknown"

\* lines 210-220
SystemStatus(tally) ==
    IF tally.totalLocations = 0 THEN "No Data"
    ELSE IF tally.unsafeLocations > 0 THEN "Unsafe"
    ELSE IF tally.cautionLocations > 0 THEN "Caution"
    ELSE IF tally.safeLocations = tally.totalLocations THEN "Safe"
    ELSE "Unknown"

\* lines 222-230
StatusBody(tally, locationData) ==
    [systemStatus |-> SystemStatus(tally),
     totalLocations |-> tally.totalLocations,
     safeLocations |-> tally.safeLocations,
     cautionLocations |-> tally.cautionLocations,
     unsafeLocations |-> tally.unsafeLocations,
     lastUpdate |-> {ToISOString(t) : t \in tally.latestTimestamp},
     locations |-> locationData]

GetStatus(fails) ==
    \E a \in getLatestData(Locations[1], fails),
       b \in getLatestData(Locations[2], fails),
       c \in getLatestData(Locations[3], fails) :
        LET fetched == <<a, b, c>>
        IN  /\ req' = [op |-> "GET /api/status"]
            /\ queries' = a.log \o b.log \o c.log
            /\ res' = [status |-> 200,
                       body |-> StatusBody(TallyUpTo(fetched, Len(Locations)),
                                           PresentReadings(fetched))]
            /\ UNCHANGED <<container, store, locals, page>>

-----------------------------------------------------------------------------
(* All-location runs: at most one document for each location; the upstream *)
(* job names the locations either by key or by display name                *)

StatusDocs(name) ==
    [location : {name},
     windowEnd : {{}, {StoredTime(2)}, {StoredTime(7)}},
     timestamp : {{}},
     safetyStatus : {{}, {Safe}, {Caution}, {Unsafe}, {Warning}},
     readingCount : {{30}}]

OneOrNone(S) == {{}} \cup {{d} : d \in S}

\* the stores whose documents are named by names[1], names[2], names[3]
StatusStores(names) ==
    {a \cup b \cup c : a \in OneOrNone(StatusDocs(names[1])),
                       b \in OneOrNone(StatusDocs(names[2])),
                       c \in OneOrNone(StatusDocs(names[3]))}

Init ==
    /\ container \in BOOLEAN
    /\ store \in StatusStores(Locations)
                 \cup StatusStores(<<DowsLakeName, FifthAvenueName, NacName>>)
    /\ req = NoRequest
    /\ res = NoResponse
    /\ queries = <<>>
    /\ locals = NoLocals
    /\ page = NoPage

\* A handler reads the container handle and the store only, nothing an
\* earlier request left behind: a run serves one request.
\* lines 112, 127, 134, 179, 234, 293: the paths app.get registers
Routes ==
    {"GET /api/data", "GET /api/data/:location", "GET /api/history/:location",
     "GET /api/status", "GET /api/debug", "GET /"}

\* the answer of Express to a GET no route and no static file matches
NotFound(path) == [status |-> 404, body |-> [html |-> "Cannot GET " \o path]]

\* GET /api/health: the path matches no pattern of Routes (a second segment
\* "health" is neither "data", "history", "status" nor "debug") and public/
\* holds no api/health file, so the request falls through to the default
\* handler, whatever the state of the store
GetHealth ==
    /\ "GET /api/health" \notin Routes
    /\ req' = [op |-> "GET /api/health"]
    /\ res' = NotFound("/api/health")
    /\ queries' = <<>>
    /\ UNCHANGED <<container, store, locals, page>>

Next ==
    \/ Idle /\ \E f \in FailureSets : GetData(f)
    \/ Idle /\ \E k \in RequestKeys : \E f \in FailureSetsFor(k) : GetDataLocation(k, f)
    \/ Idle /\ \E f \in FailureSets : GetStatus(f)
    \/ Idle /\ GetHealth

Spec == Init /\ [][Next]_vars

StatusServed == req.op = "GET /api/status"

LatestEndpoints == {"GET /api/data", "GET /api/data/:location", "GET /api/status"}

\* C3 as stated: with the store client not initialized, the latest-reading
\* endpoints answer HTTP 500, never 404, an empty mapping or "No Data"
C3_UnavailableStoreIs500 ==
    (req.op \in LatestEndpoints /\ ~container) => res.status = 500

\* C4: systemStatus follows the strict priority No Data, Unsafe, Caution,
\* Safe over the counts of the response; the readings Safe, Caution, Safe
\* give "Caution" with counts 3/2/1/0.
C4_SystemStatusPriority ==
    StatusServed =>
        LET b == res.body
        IN  /\ b.totalLocations = 0 => b.systemStatus = "No Data"
            /\ (b.totalLocations > 0 /\ b.unsafeLocations > 0)
                  => b.systemStatus = "Unsafe"
            /\ (b.totalLocations > 0 /\ b.unsafeLocations = 0
                    /\ b.cautionLocations > 0)
                  => b.systemStatus = "Caution"
            /\ (b.totalLocations > 0 /\ b.unsafeLocations = 0
                    /\ b.cautionLocations = 0
                    /\ b.safeLocations = b.totalLocations)
                  => b.systemStatus = "Safe"
            /\ (/\ DOMAIN b.locations = CanonicalLocations
                /\ b.locations[DowsLakeKey].safetyStatus = {Safe}
                /\ b.locations[FifthAvenueKey].safetyStatus = {Caution}
                /\ b.locations[NacKey].safetyStatus = {Safe})
                  => /\ b.systemStatus = "Caution"
                     /\ b.totalLocations = 3
                     /\ b.safeLocations = 2
                     /\ b.cautionLocations = 1
                     /\ b.unsafeLocations = 0

C4_Witness ==
    /\ StatusServed
    /\ DOMAIN res.body.locations = CanonicalLocations
    /\ res.body.locations[DowsLakeKey].safetyStatus = {Safe}
    /\ res.body.locations[FifthAvenueKey].safetyStatus = {Caution}
    /\ res.body.locations[NacKey].safetyStatus = {Safe}
    /\ res.body.systemStatus = "Caution"
    /\ res.body.safeLocations = 2

\* the locations of the response whose reading has one of the given statuses
LocationsWithStatus(statuses) ==
    {l \in DOMAIN res.body.locations : res.body.locations[l].safetyStatus \in statuses}

\* C5: each reading of the response is counted in exactly one class,
\* whatever its letter case ("Safe" as safe, "CAUTION" as caution); a reading
\* with no safetyStatus or another string ("Warning", "Unsafe") is counted as
\* unsafe, and any such reading makes systemStatus "Unsafe".
C5_UnrecognizedIsUnsafe ==
    StatusServed =>
        LET b == res.body
        IN  /\ b.safeLocations = Cardinality(LocationsWithStatus({{Safe}}))
            /\ b.cautionLocations = Cardinality(LocationsWithStatus({{Caution}}))
            /\ b.unsafeLocations =
                  Cardinality(LocationsWithStatus({{}, {Warning}, {Unsafe}}))
            /\ b.safeLocations + b.cautionLocations + b.unsafeLocations
                  = Cardinality(DOMAIN b.locations)
            /\ LocationsWithStatus({{}, {Warning}, {Unsafe}}) # {}
                  => b.systemStatus = "Unsafe"

C5_Witness ==
    /\ StatusServed
    /\ LocationsWithStatus({{Warning}}) # {}
    /\ LocationsWithStatus({{}}) # {}
    /\ LocationsWithStatus({{Safe}}) # {}
    /\ res.body.unsafeLocations = 2
    /\ res.body.systemStatus = "Unsafe"

\* the variant queries of the last request that returned a record
FoundQueries == {i \in DOMAIN queries : queries[i].kind = "latest" /\ queries[i].count > 0}

\* C6: totalLocations is the number of fetches that returned a reading, which
\* is the number of entries of the locations mapping; a location is in the
\* mapping exactly when a query for one of its variants returned a record; the
\* three class counts add up to totalLocations, so a location without data is
\* in no counter; with no reading at all the response is "No Data", all
\* counts zero and lastUpdate null.
C6_TotalCountsPresentReadings ==
    StatusServed =>
        LET b == res.body
        IN  /\ b.totalLocations = Cardinality(FoundQueries)
            /\ b.totalLocations = Cardinality(DOMAIN b.locations)
            /\ \A l \in CanonicalLocations :
                  l \in DOMAIN b.locations <=>
                     \E i \in FoundQueries, k \in DOMAIN LocationVariants(l) :
                        queries[i].loc = LocationVariants(l)[k]
            /\ b.safeLocations + b.cautionLocations + b.unsafeLocations
                  = b.totalLocations
            /\ FoundQueries = {}
                  => /\ b.systemStatus = "No Data"
                     /\ b.totalLocations = 0
                     /\ b.safeLocations = 0
                     /\ b.cautionLocations = 0
                     /\ b.unsafeLocations = 0
                     /\ b.lastUpdate = {}

\* two locations have a safe reading and the third has none
C6_Witness ==
    /\ StatusServed
    /\ container
    /\ Cardinality(store) = 2
    /\ NacKey \notin DOMAIN res.body.locations
    /\ res.body.totalLocations = 2
    /\ res.body.safeLocations = 2
    /\ res.body.unsafeLocations = 0
    /\ res.body.systemStatus = "Safe"

\* the instants of the readings of the response that carry a timestamp
ReadingInstants ==
    {DateOf(t) : t \in UNION {res.body.locations[l].timestamp :
                                 l \in DOMAIN res.body.locations}}

\* what the fetch for the location at position i returned, read off the response
FetchedData(i) ==
    IF Locations[i] \in DOMAIN res.body.locations
    THEN {res.body.locations[Locations[i]]}
    ELSE {}

\* latestTimestamp after the loop has processed the locations in the order p
LatestInOrder(p) ==
    Tally(Tally(Tally(EmptyTally, FetchedData(p[1])), FetchedData(p[2])),
          FetchedData(p[3])).latestTimestamp

\* C7: lastUpdate is the ISO rendering of the greatest instant among the
\* readings that carry a timestamp, and null when none carries one; the loop
\* arrives at the same instant in each of the six orders of the locations.
C7_LastUpdateIsMaximum ==
    StatusServed =>
        LET b == res.body
        IN  /\ ReadingInstants = {} => b.lastUpdate = {}
            /\ ReadingInstants # {}
                  => \E m \in ReadingInstants :
                        /\ \A t \in ReadingInstants : t <= m
                        /\ b.lastUpdate = {ToISOString(m)}
            /\ \A p \in Permutations({1, 2, 3}) :
                  {ToISOString(t) : t \in LatestInOrder(p)} = b.lastUpdate

\* the newest reading comes first, followed by one without a timestamp and
\* an older one
C7_Witness ==
    /\ StatusServed
    /\ DOMAIN res.body.locations = CanonicalLocations
    /\ res.body.locations[DowsLakeKey].timestamp = {StoredTime(7)}
    /\ res.body.locations[FifthAvenueKey].timestamp = {}
    /\ res.body.locations[NacKey].timestamp = {StoredTime(2)}
    /\ res.body.lastUpdate = {ToISOString(7)}

\* the variant queries of the last request that returned a record
VariantHits == {i \in DOMAIN VariantQueries : VariantQueries[i].count > 0}

\* C13: GET /api/data/:location answers 200 with the normalized reading
\* exactly when some variant query returned a record, and otherwise 404 with
\* a body that has an error field; never 200 with null.
C13_NoRecordIs404 ==
    FetchedOne =>
        /\ res.status \in {200, 404}
        /\ res.status = 200 <=> VariantHits # {}
        /\ res.status = 404 =>
              /\ "error" \in DOMAIN res.body
              /\ res.body.error = "No data for location"
        /\ res.status = 200 =>
              /\ res.body \in NormalizedNewest(LastVariantQuery.loc)
              /\ res.body.location = NormalizeLocation(LastVariantQuery.loc)

\* the store is reachable and holds records of other locations, both
\* variants of fifth-avenue are queried without a failure, and the answer is
\* 404 with the error body
C13_Witness ==
    /\ FetchedOne
    /\ container
    /\ store # {}
    /\ req.location = FifthAvenueKey
    /\ Len(VariantQueries) = 2
    /\ \A i \in DOMAIN queries : ~queries[i].threw
    /\ res = [status |-> 404, body |-> NoDataBody]

DataServed == req.op = "GET /api/data"

\* the variants of the canonical location l whose query returned a record
HitVariants(l) ==
    {queries[i].loc : i \in {j \in FoundQueries :
        \E k \in DOMAIN LocationVariants(l) :
            queries[j].loc = LocationVariants(l)[k]}}

\* C14: GET /api/data answers 200 with a mapping whose keys are exactly the
\* canonical locations whose latest fetch returned a reading, each mapped
\* to the normalized newest record of the variant that matched; no entry is
\* null, and the mapping is empty when no location has a reading.
C14_DataKeysArePresentReadings ==
    DataServed =>
        /\ res.status = 200
        /\ DOMAIN res.body \subseteq CanonicalLocations
        /\ \A l \in CanonicalLocations :
              l \in DOMAIN res.body <=> HitVariants(l) # {}
        /\ \A l \in DOMAIN res.body :
              /\ \E v \in HitVariants(l) : res.body[l] \in NormalizedNewest(v)
              /\ res.body[l].location = l
        /\ FoundQueries = {} => DOMAIN res.body = {}

\* dows-lake and nac have a reading and fifth-avenue has none
C14_Witness ==
    /\ DataServed
    /\ container
    /\ \A i \in DOMAIN queries : ~queries[i].threw
    /\ DOMAIN res.body = {DowsLakeKey, NacKey}
    /\ res.body[DowsLakeKey].location = DowsLakeKey

HealthRequested == req.op = "GET /api/health"

\* C15 as stated: GET /api/health is a served endpoint that always answers
\* with a JSON body of status "ok" and a timestamp, whatever the state of the
\* store.
C15_HealthIsOk ==
    HealthRequested =>
        /\ res.status = 200
        /\ DOMAIN res.body = {"status", "timestamp"}
        /\ res.body.status = "ok"

-----------------------------------------------------------------------------
(* GET /api/status, one step for each iteration of its loop: the handler   *)
(* is suspended at each await getLatestData(loc), and the statements from  *)
(* one await to the next run without interruption                          *)

\* lines 180-188: the locals before the loop
StatusBegin ==
    /\ Idle
    /\ locals = NoLocals
    /\ req = NoRequest
    /\ req' = [op |-> "GET /api/status"]
    /\ locals' = [handler |-> "status", k |-> 0, tally |-> EmptyTally,
                  locationData |-> <<>>]
    /\ queries' = <<>>
    /\ UNCHANGED <<container, store, res, page>>

\* line 193: locationData[loc] = data
WithReading(locationData, loc, data) ==
    IF data = {}
    THEN locationData
    ELSE [l \in DOMAIN locationData \cup {loc} |->
            IF l = loc THEN CHOOSE r \in data : TRUE ELSE locationData[l]]

\* lines 190-207: the iteration for the location after the locals.k processed
StatusStep ==
    /\ locals.handler = "status"
    /\ locals.k < Len(Locations)
    /\ LET loc == Locations[locals.k + 1]
       IN  \E f \in FailureSetsFor(loc) :
           \E o \in getLatestData(loc, f) :
               /\ locals' = [handler |-> "status",
                             k |-> locals.k + 1,
                             tally |-> Tally(locals.tally, o.data),
                             locationData |->
                                 WithReading(locals.locationData, loc, o.data)]
               /\ queries' = queries \o o.log
    /\ UNCHANGED <<container, store, req, res, page>>

\* lines 209-230: after the loop
StatusRespond ==
    /\ locals.handler = "status"
    /\ locals.k = Len(Locations)
    /\ res' = [status |-> 200,
               body |-> StatusBody(locals.tally, locals.locationData)]
    /\ locals' = NoLocals
    /\ UNCHANGED <<container, store, req, queries, page>>

\* at most one document for each location, of any of the stored statuses
TallyDocs(name) ==
    [location : {name},
     windowEnd : {{StoredTime(7)}},
     timestamp : {{}},
     safetyStatus : {{}, {Safe}, {Caution}, {Unsafe}, {Warning}},
     readingCount : {{30}}]

TallyStores(names) ==
    {a \cup b \cup c : a \in OneOrNone(TallyDocs(names[1])),
                       b \in OneOrNone(TallyDocs(names[2])),
                       c \in OneOrNone(TallyDocs(names[3]))}

InitTally ==
    /\ container \in BOOLEAN
    /\ store \in TallyStores(Locations)
                 \cup TallyStores(<<DowsLakeName, FifthAvenueName, NacName>>)
    /\ req = NoRequest
    /\ res = NoResponse
    /\ queries = <<>>
    /\ locals = NoLocals
    /\ page = NoPage

NextTally ==
    \/ StatusBegin
    \/ StatusStep
    \/ StatusRespond

SpecTally == InitTally /\ [][NextTally]_vars

InStatusLoop == locals.handler = "status"

StatusResponded == req.op = "GET /api/status" /\ res.status = 200

StatusValues == {"No Data", "Unsafe", "Caution", "Safe"}

\* C17: at every await of the /api/status tally loop and in every response,
\* safeLocations + cautionLocations + unsafeLocations = totalLocations <= 3
\* and totalLocations is the number of entries of the locations mapping; so
\* systemStatus is never "Unknown", whatever the store holds and whichever
\* queries fail.
C17_TallyConsistent ==
    /\ InStatusLoop =>
          LET t == locals.tally
          IN  /\ t.safeLocations + t.cautionLocations + t.unsafeLocations
                    = t.totalLocations
              /\ t.totalLocations <= locals.k
              /\ locals.k <= 3
              /\ t.totalLocations = Cardinality(DOMAIN locals.locationData)
              /\ SystemStatus(t) # "Unknown"
    /\ StatusResponded =>
          LET b == res.body
          IN  /\ b.safeLocations + b.cautionLocations + b.unsafeLocations
                    = b.totalLocations
              /\ b.totalLocations <= 3
              /\ b.totalLocations = Cardinality(DOMAIN b.locations)
              /\ b.systemStatus # "Unknown"
              /\ b.systemStatus \in StatusValues

\* two iterations done: the query for one location threw, and the reading
\* of the other has an unrecognized status and is counted as unsafe
C17_Witness ==
    /\ InStatusLoop
    /\ locals.k = 2
    /\ \E i \in DOMAIN queries : queries[i].threw
    /\ locals.tally.totalLocations = 1
    /\ locals.tally.unsafeLocations = 1
    /\ \E l \in DOMAIN locals.locationData :
          locals.locationData[l].safetyStatus = {Warning}

-----------------------------------------------------------------------------
(* GET /api/history/:location *)

DigitChars == <<"0","1","2","3","4","5","6","7","8","9">>

IsDigit(c) == \E i \in DOMAIN DigitChars : DigitChars[i] = c

DigitValue(c) == (CHOOSE i \in DOMAIN DigitChars : DigitChars[i] = c) - 1

RECURSIVE LeadingDigits(_, _, _)
\* the value of the longest prefix of decimal digits of s; {} (NaN) when s
\* starts with no digit
LeadingDigits(s, value, any) ==
    IF s # <<>> /\ IsDigit(Head(s))
    THEN LeadingDigits(Tail(s), 10 * value + DigitValue(Head(s)), TRUE)
    ELSE IF any THEN {value} ELSE {}

\* parseInt(value) in radix 10: leading whitespace skipped, an optional sign,
\* then digits up to the first other character; {} is NaN.  An absent
\* parameter (undefined) parses as NaN.  The strings drawn have no "0x" prefix.
ParseInt(param) ==
    IF param = {} THEN {}
    ELSE LET s == TrimLeft(CHOOSE v \in param : TRUE)
         IN  IF s # <<>> /\ Head(s) = "-"
             THEN {0 - n : n \in LeadingDigits(Tail(s), 0, FALSE)}
             ELSE IF s # <<>> /\ Head(s) = "+"
             THEN LeadingDigits(Tail(s), 0, FALSE)
             ELSE LeadingDigits(s, 0, FALSE)

\* line 141: parseInt(req.query.hours) || 1
LookbackHours(param) ==
    IF ParseInt(param) = {} \/ ParseInt(param) = {0}
    THEN 1
    ELSE CHOOSE n \in ParseInt(param) : TRUE

\* new Date() at the request: the instant 4 hours after instant 0
Now == 8

\* lines 142-143: cutoff.setHours(cutoff.getHours() - hours), an hour being
\* two half hours (local-clock arithmetic; a daylight-saving shift inside the
\* window is not modelled)
Cutoff(hours) == Now - 2 * hours

\* a faulty variant: records exactly at the cutoff are left out
InWindowStrict(loc, cutoff) ==
    {d \in Matching(loc) : d.windowEnd # {} /\ OrderKey(d) > cutoff}

\* WHERE c.location = @loc AND c.windowEnd >= @cut; a null windowEnd
\* satisfies no comparison
InWindow(loc, cutoff) ==
    {d \in Matching(loc) : d.windowEnd # {} /\ OrderKey(d) >= cutoff}

RECURSIVE AscendingOrders(_)
\* ORDER BY c.windowEnd ASC: the sequences the store may return for the
\* documents S (those that tie come in any order)
AscendingOrders(S) ==
    IF S = {} THEN {<<>>}
    ELSE UNION {{<<d>> \o rest : rest \in AscendingOrders(S \ {d})}
                   : d \in {m \in S : \A e \in S : OrderKey(m) <= OrderKey(e)}}

\* a faulty variant: the records of all variants are concatenated
RECURSIVE HistoryWalkMerge(_, _, _, _, _)
HistoryWalkMerge(variants, i, cutoff, fails, log) ==
    IF i > Len(variants) THEN {[resources |-> <<>>, log |-> log]}
    ELSE LET loc == variants[i]
         IN  IF loc \in fails
             THEN HistoryWalkMerge(variants, i + 1, cutoff, fails,
                        Append(log, QueryEntry("history", loc, TRUE, 0)))
             ELSE {[resources |-> r \o o.resources, log |-> o.log] :
                      r \in AscendingOrders(InWindow(loc, cutoff)),
                      o \in HistoryWalkMerge(variants, i + 1, cutoff, fails,
                               Append(log, QueryEntry("history", loc, FALSE,
                                        Cardinality(InWindow(loc, cutoff)))))}

\* lines 154-173: the loop over the variants from position i on
RECURSIVE HistoryWalk(_, _, _, _, _)
HistoryWalk(variants, i, cutoff, fails, log) ==
    IF i > Len(variants) THEN {[resources |-> <<>>, log |-> log]}
    ELSE LET loc == variants[i]
         IN  IF loc \in fails
             THEN HistoryWalk(variants, i + 1, cutoff, fails,
                        Append(log, QueryEntry("history", loc, TRUE, 0)))
             ELSE IF InWindow(loc, cutoff) = {}
             THEN HistoryWalk(variants, i + 1, cutoff, fails,
                        Append(log, QueryEntry("history", loc, FALSE, 0)))
             ELSE {[resources |-> r,
                    log |-> Append(log, QueryEntry("history", loc, FALSE, Len(r)))]
                        : r \in AscendingOrders(InWindow(loc, cutoff))}

NotInitializedBody == [error |-> "Container not initialized"]

\* a faulty variant: a store that was never initialized is answered like a
\* store without data, 200 with an empty sequence
GetHistoryEmptyWhenUnset(locationKey, hoursParam, fails) ==
    /\ req' = [op |-> "GET /api/history/:location",
               location |-> locationKey, hours |-> hoursParam]
    /\ IF ~container
       THEN /\ res' = [status |-> 200, body |-> <<>>]
            /\ queries' = <<>>
       ELSE \E o \in HistoryWalk(LocationVariants(locationKey), 1,
                                 Cutoff(LookbackHours(hoursParam)), fails, <<>>) :
                /\ res' = [status |-> 200,
                           body |-> [k \in DOMAIN o.resources |->
                                        normalizeDoc(o.resources[k])]]
                /\ queries' = o.log
    /\ UNCHANGED <<container, store, locals, page>>

GetHistory(locationKey, hoursParam, fails) ==
    /\ req' = [op |-> "GET /api/history/:location",
               location |-> locationKey, hours |-> hoursParam]
    /\ IF ~container
       THEN /\ res' = [status |-> 500, body |-> NotInitializedBody]
            /\ queries' = <<>>
       ELSE \E o \in HistoryWalk(LocationVariants(locationKey), 1,
                                 Cutoff(LookbackHours(hoursParam)), fails, <<>>) :
                /\ res' = [status |-> 200,
                           body |-> [k \in DOMAIN o.resources |->
                                        normalizeDoc(o.resources[k])]]
                /\ queries' = o.log
    /\ UNCHANGED <<container, store, locals, page>>

-----------------------------------------------------------------------------
(* History runs: a store of at most MaxDocs documents, 3 hours, 1 hour and *)
(* half an hour old or without windowEnd                                   *)

HistoryDocs ==
    [location : StoredNames,
     windowEnd : {{}, {StoredTime(2)}, {StoredTime(6)}, {StoredTime(7)}},
     timestamp : {{}},
     safetyStatus : {{Safe}},
     readingCount : {{30}}]

\* the values of ?hours= the runs request: absent, 1, 2, 3, 0, -1, abc, 2.5
HoursParams ==
    {{}, {<<"1">>}, {<<"2">>}, {<<"3">>}, {<<"0">>}, {<<"-","1">>},
     {<<"a","b","c">>}, {<<"2",".","5">>}}

InitHistory ==
    /\ container \in BOOLEAN
    /\ store \in SubsetsUpTo(HistoryDocs, MaxDocs)
    /\ req = NoRequest
    /\ res = NoResponse
    /\ queries = <<>>
    /\ locals = NoLocals
    /\ page = NoPage

NextHistory ==
    Idle /\ \E k \in RequestKeys, h \in HoursParams :
                \E f \in FailureSetsFor(k) : GetHistory(k, h, f)

SpecHistory == InitHistory /\ [][NextHistory]_vars

HistoryServed == req.op = "GET /api/history/:location"

\* the lookback of a request whose hours parameter is absent or 1, 2 or 3
PlainHours ==
    IF req.hours = {<<"2">>} THEN 2 ELSE IF req.hours = {<<"3">>} THEN 3 ELSE 1

\* the documents stored under loc whose windowEnd is at or after the instant
\* PlainHours hours before Now
Recent(loc) ==
    {d \in store : /\ d.location = loc
                   /\ \E t \in d.windowEnd : t.instant >= Now - 2 * PlainHours}

Threw(loc) == \E i \in DOMAIN queries : queries[i].loc = loc /\ queries[i].threw

\* C10: for a lookback of N hours (N = 1, 2, 3, or the default 1) the
\* response holds exactly the normalized records with windowEnd >= now - N
\* hours of the first variant, in resolver order, whose query succeeds and
\* has such a record, in ascending windowEnd order; no later variant is
\* queried or merged in; the response is empty when there is no such variant.
C10_HistoryFirstVariantWindow ==
    (HistoryServed /\ container /\ req.hours \in {{}, {<<"1">>}, {<<"2">>}, {<<"3">>}}) =>
        LET v == LocationVariants(req.location)
            hits == {i \in DOMAIN v : Recent(v[i]) # {} /\ ~Threw(v[i])}
        IN  /\ res.status = 200
            /\ hits = {} => res.body = <<>>
            /\ hits # {} =>
                  LET first == CHOOSE i \in hits : \A j \in hits : i <= j
                  IN  /\ Len(queries) = first
                      /\ Len(res.body) = Cardinality(Recent(v[first]))
                      /\ {res.body[k] : k \in DOMAIN res.body}
                            = {normalizeDoc(d) : d \in Recent(v[first])}
            /\ \A k \in DOMAIN res.body :
                  /\ res.body[k].timestamp # {}
                  /\ k > 1 => \A a \in res.body[k - 1].timestamp,
                                 b \in res.body[k].timestamp :
                                    a.instant <= b.instant

\* hours=2: the key holds a record 3 hours old and one half an hour old, and
\* only the latter is returned
C10_Witness ==
    /\ HistoryServed
    /\ req.hours = {<<"2">>}
    /\ req.location = DowsLakeKey
    /\ \E d \in Matching(DowsLakeKey), e \in Matching(DowsLakeKey) :
          OrderKey(d) = Now - 6 /\ OrderKey(e) = Now - 1
    /\ res.status = 200
    /\ Len(res.body) = 1
    /\ res.body[1].timestamp = {StoredTime(Now - 1)}

\* the history queries that returned at least one record
HistoryHits == {i \in DOMAIN queries : queries[i].count > 0}

\* C11 as stated: the history fetch never produces an error; without data,
\* with a throwing variant query, or with a store client that was never
\* initialized, the response is the empty sequence.
C11_HistoryNeverErrors ==
    HistoryServed =>
        /\ res.status = 200
        /\ (HistoryHits = {} \/ ~container) => res.body = <<>>

\* C11, amended: with an initialized store client the history fetch never
\* produces an error: a throwing variant query is skipped and the walk goes on
\* to the next variant, and the response is 200 with the empty sequence when
\* no variant query returns a record; with a store client that was never
\* initialized the response is 500 with an error body and no query is issued.
C11_HistoryErrorOnlyWhenUnset ==
    HistoryServed =>
        /\ container =>
              /\ res.status = 200
              /\ HistoryHits = {} =>
                    /\ res.body = <<>>
                    /\ Len(queries) = Len(LocationVariants(req.location))
              /\ \A i \in DOMAIN queries :
                    queries[i].threw =>
                        /\ queries[i].count = 0
                        /\ i < Len(LocationVariants(req.location)) =>
                              Len(queries) > i
        /\ ~container =>
              /\ res.status = 500
              /\ res.body = NotInitializedBody
              /\ queries = <<>>

\* the query of the only variant holding recent records throws and the
\* response is 200 with the empty sequence
C11_Witness ==
    /\ HistoryServed
    /\ container
    /\ req.location = DowsLakeKey
    /\ req.hours = {}
    /\ Recent(DowsLakeKey) # {}
    /\ Recent(DowsLakeName) = {}
    /\ Threw(DowsLakeKey)
    /\ Len(queries) = 2
    /\ res = [status |-> 200, body |-> <<>>]

-----------------------------------------------------------------------------
(* The lookback window of the history handler, lines 141-143, over every   *)
(* string of at most MaxLen characters of HoursAlphabet                    *)

HoursAlphabet == {"-", "+", "0", "1", "2", "a", " ", "."}

RECURSIVE HoursStrings(_)
HoursStrings(n) ==
    IF n = 0 THEN {<<>>}
    ELSE LET shorter == HoursStrings(n - 1)
         IN  shorter \cup {<<c>> \o s : c \in HoursAlphabet,
                                        s \in {t \in shorter : Len(t) = n - 1}}

\* req.query.hours: absent, or a string
HoursInputs == {{}} \cup {{s} : s \in HoursStrings(MaxLen)}

\* lines 141-143: const hours = ...; const cutoff = new Date();
\* cutoff.setHours(cutoff.getHours() - hours)
HistoryWindow ==
    /\ locals = NoLocals
    /\ locals' = [handler |-> "history",
                  hours |-> LookbackHours(req.hours),
                  cutoff |-> Cutoff(LookbackHours(req.hours))]
    /\ UNCHANGED <<container, store, req, res, queries, page>>

InitLookback ==
    /\ container = TRUE
    /\ store = {}
    /\ req \in [op : {"GET /api/history/:location"},
                location : {DowsLakeKey},
                hours : HoursInputs]
    /\ res = NoResponse
    /\ queries = <<>>
    /\ locals = NoLocals
    /\ page = NoPage

SpecLookback == InitLookback /\ [][HistoryWindow]_vars

WindowComputed == locals.handler = "history"

\* the supplied hours value is the decimal numeral of a positive integer
SuppliedPositiveInteger ==
    \E s \in req.hours :
        /\ s # <<>>
        /\ \A i \in DOMAIN s : IsDigit(s[i])
        /\ \E i \in DOMAIN s : s[i] # "0"

\* C12 as stated: for every hours value (absent, non-numeric, zero,
\* negative, positive) the lookback used is a positive integer, equal to the
\* supplied value when that is a positive integer and the default 1
\* otherwise, and the cutoff is never later than now.
C12_LookbackPositive ==
    WindowComputed =>
        /\ locals.hours >= 1
        /\ locals.cutoff <= Now
        /\ IF SuppliedPositiveInteger
           THEN \A s \in req.hours : {locals.hours} = LeadingDigits(s, 0, FALSE)
           ELSE locals.hours = 1

-----------------------------------------------------------------------------
(* The dashboard page, public/app.js: refresh cycles of updateDashboardData *)
(* with the outcome of each fetch an input.  A fetch fails when fetch()     *)
(* rejects or the response is not ok; both end in the catch block.  The     *)
(* page has the locationsGrid element the script looks up.  A cycle ends    *)
(* before the next tick of setInterval.                                     *)

\* lines 13-18: locationNames
LocationNamesText(locationId) ==
    IF locationId = DowsLakeKey THEN "Dow's Lake"
    ELSE IF locationId = FifthAvenueKey THEN "Fifth Avenue"
    ELSE "NAC"

\* lines 160-162: the text of a card without data
NoDataText(locationId) == "No data available for " \o LocationNamesText(locationId)

\* the text of a card that shows a reading, lines 168-195
ReadingText(locationId) == LocationNamesText(locationId)

\* no fetch has completed yet
NoFetch == [fetch |-> "none", ok |-> TRUE, banner |-> FALSE]

NotFetched == [done |-> FALSE, value |-> {}]

\* DOMContentLoaded: init calls updateDashboardData, which starts fetchData
\* and fetchStatus
LoadPage ==
    /\ page = NoPage
    /\ page' = [pc |-> "fetch", cycle |-> 1, grid |-> TRUE, banners |-> 0,
                cards |-> [l \in CanonicalLocations |-> "absent"],
                data |-> NotFetched, status |-> NotFetched, hist |-> 0,
                last |-> NoFetch]
    /\ UNCHANGED <<container, store, req, res, queries, locals>>

\* lines 353-371: showError; the number of error banners in the grid after it
ShowError(p) == IF p.grid THEN p.banners + 1 ELSE p.banners

\* lines 48-66: fetchData completes, with the set of locations the response
\* has a key for, or fails
FetchDataDone ==
    /\ page.pc = "fetch"
    /\ ~page.data.done
    /\ \/ \E present \in SUBSET CanonicalLocations :
             page' = [page EXCEPT !.data = [done |-> TRUE, value |-> {present}],
                                  !.last = [fetch |-> "data", ok |-> TRUE,
                                            banner |-> FALSE]]
       \/ page' = [page EXCEPT !.data = [done |-> TRUE, value |-> {}],
                               !.banners = ShowError(page),
                               !.last = [fetch |-> "data", ok |-> FALSE,
                                         banner |-> page.grid]]
    /\ UNCHANGED <<container, store, req, res, queries, locals>>

\* lines 71-88: fetchStatus completes or fails; the catch block only logs
FetchStatusDone ==
    /\ page.pc = "fetch"
    /\ ~page.status.done
    /\ \E ok \in BOOLEAN :
          page' = [page EXCEPT
                      !.status = [done |-> TRUE,
                                  value |-> IF ok THEN {"status"} ELSE {}],
                      !.last = [fetch |-> "status", ok |-> ok, banner |-> FALSE]]
    /\ UNCHANGED <<container, store, req, res, queries, locals>>

\* lines 146-165: updateLocationCard(locationId, data[locationId])
UpdateLocationCard(p, cards, locationId, present) ==
    IF ~p.grid THEN cards
    ELSE [cards EXCEPT ![locationId] =
             IF locationId \in present THEN ReadingText(locationId)
             ELSE NoDataText(locationId)]

\* lines 201-208: updateDashboard(data)
UpdateDashboard(p, present) ==
    UpdateLocationCard(p,
        UpdateLocationCard(p,
            UpdateLocationCard(p, p.cards, Locations[1], present),
            Locations[2], present),
        Locations[3], present)

\* lines 380-391: after Promise.all, the cards are updated when data is not
\* null, and updateCharts starts its first history fetch
AfterFetch ==
    /\ page.pc = "fetch"
    /\ page.data.done
    /\ page.status.done
    /\ page' = [page EXCEPT
                   !.pc = "charts",
                   !.hist = 0,
                   !.cards = IF page.data.value = {} THEN page.cards
                             ELSE UpdateDashboard(page,
                                      CHOOSE present \in page.data.value : TRUE)]
    /\ UNCHANGED <<container, store, req, res, queries, locals>>

\* lines 93-110 and 225-227: the next fetchHistoricalData completes or
\* fails; the catch block only logs and returns []
HistoryDone ==
    /\ page.pc = "charts"
    /\ page.hist < Len(Locations)
    /\ \E ok \in BOOLEAN :
          page' = [page EXCEPT
                      !.hist = page.hist + 1,
                      !.pc = IF page.hist + 1 = Len(Locations)
                             THEN "idle" ELSE "charts",
                      !.last = [fetch |-> "history", ok |-> ok, banner |-> FALSE]]
    /\ UNCHANGED <<container, store, req, res, queries, locals>>

\* line 404: the next tick of setInterval calls updateDashboardData
Refresh ==
    /\ page.pc = "idle"
    /\ page.cycle < MaxCycles
    /\ page' = [page EXCEPT !.pc = "fetch", !.cycle = page.cycle + 1,
                            !.data = NotFetched, !.status = NotFetched]
    /\ UNCHANGED <<container, store, req, res, queries, locals>>

\* lines 366-370: the timeout of a banner removes it from the grid
DismissBanner ==
    /\ page.pc # "none"
    /\ page.banners > 0
    /\ page' = [page EXCEPT !.banners = page.banners - 1]
    /\ UNCHANGED <<container, store, req, res, queries, locals>>

InitDashboard ==
    /\ container = TRUE
    /\ store = {}
    /\ req = NoRequest
    /\ res = NoResponse
    /\ queries = <<>>
    /\ locals = NoLocals
    /\ page = NoPage

NextDashboard ==
    \/ LoadPage
    \/ FetchDataDone
    \/ FetchStatusDone
    \/ AfterFetch
    \/ HistoryDone
    \/ Refresh
    \/ DismissBanner

\* a pending timeout fires
SpecDashboard ==
    InitDashboard /\ [][NextDashboard]_vars /\ WF_vars(DismissBanner)

PageLoaded == page.pc # "none"

\* the data fetch of the cycle succeeded and its response has been rendered
DataRendered ==
    /\ PageLoaded
    /\ page.pc \in {"charts", "idle"}
    /\ page.data.value # {}

\* C16 as stated, at the completion of each fetch: a fetch that failed (the
\* data fetch, the status fetch or a history fetch) has put up the error
\* banner; and once a data response is rendered, the card of each location
\* missing from it reads "No data available for <location>".
C16_EveryFailureShowsBanner ==
    /\ (PageLoaded /\ ~page.last.ok) => page.last.banner
    /\ DataRendered =>
          \A present \in page.data.value :
              \A l \in CanonicalLocations \ present :
                  page.cards[l] = NoDataText(l)

-----------------------------------------------------------------------------
(* Normalization of free-form location strings *)

NormAlphabet == {"D", "s", "'", " ", "-"}

RECURSIVE StringsUpTo(_)
StringsUpTo(n) ==
    IF n = 0 THEN {<<>>}
    ELSE LET shorter == StringsUpTo(n - 1)
         IN  shorter \cup {<<c>> \o s : c \in NormAlphabet,
                                        s \in {t \in shorter : Len(t) = n - 1}}

DowsLakeNoApostrophe == <<"D","o","w","s"," ","L","a","k","e">>
DowsLakePadded ==
    <<" ","D","o","w","'","s"," "," "," ","L","a","k","e"," ">>
DowsLakePaddedNormalized ==
    <<"-","d","o","w","s","-","l","a","k","e","-">>

RawLocations ==
    StringsUpTo(MaxLen) \cup StoredNames \cup {DowsLakeNoApostrophe, DowsLakePadded}

InitNormalize ==
    /\ container = TRUE
    /\ store = {}
    /\ queries = <<>>
    /\ locals = NoLocals
    /\ page = NoPage
    /\ req \in {[op |-> "normalizeDoc", location |-> s] : s \in RawLocations}
    /\ res = [status |-> 0, body |-> <<>>]

Normalize ==
    /\ req.op = "normalizeDoc"
    /\ res.status = 0
    /\ res' = [status |-> 200, body |-> NormalizeLocation(req.location)]
    /\ UNCHANGED <<container, store, req, queries, locals, page>>

SpecNormalize == InitNormalize /\ [][Normalize]_vars

Normalized == req.op = "normalizeDoc" /\ res.status = 200

\* C8 as stated: each of the four spellings, the padded one included,
\* normalizes to exactly "dows-lake"
C8_AllFourToDowsLake ==
    (Normalized /\ req.location \in
        {DowsLakeName, DowsLakeKey, DowsLakeNoApostrophe, DowsLakePadded})
        => res.body = DowsLakeKey

\* C8 amended: "Dow's Lake", "dows-lake" and "Dows Lake" normalize to
\* "dows-lake"; " Dow's   Lake " is not trimmed and normalizes to
\* "-dows-lake-", its leading and trailing whitespace runs each becoming a
\* hyphen.  In general the result has no upper-case letter of the input, no
\* apostrophe and no whitespace.
C8_Normalization ==
    Normalized =>
        /\ req.location \in {DowsLakeName, DowsLakeKey, DowsLakeNoApostrophe}
              => res.body = DowsLakeKey
        /\ req.location = DowsLakePadded => res.body = DowsLakePaddedNormalized
        /\ \A i \in DOMAIN res.body :
              /\ res.body[i] # "'"
              /\ ~IsSpace(res.body[i])
              /\ ~(\E k \in DOMAIN Upper : Upper[k] = res.body[i])

C8_Witness ==
    Normalized /\ req.location = DowsLakePadded
               /\ res.body = DowsLakePaddedNormalized

====
